---- MODULE Spec2Model ----
(***************************************************************************)
(* The queue-based correlation engine of src/src/queue.ts: the pending     *)
(* request ledger (callResultsPending), the result collector run by the    *)
(* collector pump, the retry timer and the stop/drain protocol.            *)
(*                                                                         *)
(* JavaScript runs one callback at a time, so each action below is the     *)
(* code that runs between two suspension points (await).                   *)
(***************************************************************************)
EXTENDS Integers, Sequences, FiniteSets, Bags, TLC

(* ------------------------------ bounds --------------------------------- *)

\* Number of enqueueCallRequest calls in one behaviour of Spec.
MaxCalls == 2
\* Longest batch receiveMessages returns under Spec.
MaxBatch == 2
\* Number of enqueueCallRequest calls in one behaviour of SpecLoad.
MaxLoad == 181
\* Longest batch receiveMessages returns under SpecLoad.
MaxLoadBatch == 1
\* SpecRetry: calls enqueued and the last second of the clock.
MaxRetryCalls == 10
MaxNow == 5

(* ------------------------- program constants --------------------------- *)

InitialConcurrency == 2
CollectorsPerPending == 20
MinCollectors == 2
MaxCollectors == 10
DrainLimit == 100
\* setInterval(..., 5 * 1000) and `now - pending.created > 4 * 1000`, in seconds.
RetryInterval == 5
RetryAge == 4
\* retryQueue publishes only while size < 10.
RetryLimit == 10

(* ------------------------------ values --------------------------------- *)

\* getMessageAttribute(m, "CallId") of a message without the attribute.
NoCallId == 0
\* callResultsPending.get(id) of an absent id.
NoDeferred == 0

\* The correlation ids callers use under Spec.
CallIds == {1, 2}

\* Message bodies the backend can hand over: two well-formed result bodies
\* and one that JSON.parse rejects.
BodyTrue == "{\"ok\":true}"
BodyFalse == "{\"ok\":false}"
BodyGarbage == "<html>"
Bodies == {BodyTrue, BodyFalse, BodyGarbage}

\* JSON.parse of a message body: the parsed object, or a SyntaxError.
JSONparse(body) ==
    CASE body = BodyTrue -> [threw |-> FALSE, value |-> [ok |-> TRUE]]
      [] body = BodyFalse -> [threw |-> FALSE, value |-> [ok |-> FALSE]]
      [] OTHER -> [threw |-> TRUE, value |-> [ok |-> FALSE]]

\* JSON.stringify({...callRequest, ResponseQueueId}).
JSONstringify(CallId, ResponseQueueId) ==
    <<"CallId", CallId, "ResponseQueueId", ResponseQueueId>>

ResponseQueueIds == {"rq"}

ResultMessage(id, body) == [kind |-> "result", CallId |-> id, body |-> body]
ControlMessage(type, id) == [kind |-> type, CallId |-> id, body |-> ""]

\* The messages receiveMessages can return under Spec: a result for every
\* id and body, a message without the CallId attribute, and the two control
\* messages.
Messages ==
    {ResultMessage(id, b) : id \in CallIds, b \in Bodies}
        \cup {ResultMessage(NoCallId, BodyTrue)}
        \cup {ControlMessage("functionstarted", id) : id \in CallIds}
        \cup {ControlMessage("stopqueue", NoCallId)}

BatchesOf(msgs, n) == UNION {[1 .. k -> msgs] : k \in 0 .. n}
Batches == BatchesOf(Messages, MaxBatch)

isControlMessage(m, type) == m.kind = type
getMessageAttribute(m) == m.CallId
getMessageBody(m) == m.body

(* ------------------------------- state --------------------------------- *)

VARIABLES
    callResultsPending, \* Map<string, PendingRequest>: id -> ledger entry
    promises,           \* every PendingRequest ever constructed, by creation order
    collectorPump,      \* the Pump: maxConcurrency, concurrency, stopped
    receiving,          \* collector instances suspended in receiveMessages
    retryTimer,         \* TRUE while the setInterval timer is armed
    retryDue,           \* time of the timer's next tick
    now,                \* Date.now(), in seconds since construction
    requestQueue,       \* bag of the bodies passed to publishMessage
    stopState,          \* stop(): "idle", "threw", "sleeping" or "done"
    count,              \* stop()'s local count
    tasks,              \* stop()'s local tasks: stopqueue messages published
    atStop              \* history: what stop() found when it was called

vars ==
    <<callResultsPending, promises, collectorPump, receiving, retryTimer,
      retryDue, now, requestQueue, stopState, count, tasks, atStop>>

(* ------------------------------- Map ----------------------------------- *)

EmptyMap == [k \in {} |-> NoDeferred]
Size(map) == Cardinality(DOMAIN map)
MapHas(map, k) == k \in DOMAIN map
MapSet(map, k, v) == [x \in DOMAIN map \cup {k} |-> IF x = k THEN v ELSE map[x]]
MapDelete(map, k) == [x \in DOMAIN map \ {k} |-> map[x]]

(* --------------------------- Deferred (funnel) -------------------------- *)

NewDeferred(id) ==
    [CallId |-> id, state |-> "pending", value |-> [ok |-> FALSE],
     rawResponse |-> ControlMessage("none", NoCallId), settles |-> 0]

\* deferred.resolve(value): a promise settles once; later calls are ignored,
\* but each call is counted in settles.
Resolve(ps, d, value, raw) ==
    [ps EXCEPT ![d] =
        IF @.state = "pending"
        THEN [@ EXCEPT !.state = "resolved", !.value = value, !.rawResponse = raw,
                       !.settles = @ + 1]
        ELSE [@ EXCEPT !.settles = @ + 1]]

\* deferred.reject(error), with the cancellation error of rejectAll.
Reject(ps, d) ==
    [ps EXCEPT ![d] =
        IF @.state = "pending"
        THEN [@ EXCEPT !.state = "rejected", !.settles = @ + 1]
        ELSE [@ EXCEPT !.settles = @ + 1]]

(* ----------------------------- PendingRequest --------------------------- *)

PendingRequest(d, callArgsStr, t) ==
    [deferred |-> d, callArgsStr |-> callArgsStr, created |-> t, executing |-> FALSE]

(* ------------------------------ construction ---------------------------- *)

Init ==
    /\ callResultsPending = EmptyMap
    /\ promises = << >>
    /\ collectorPump =
        [maxConcurrency |-> InitialConcurrency, concurrency |-> 0, stopped |-> FALSE]
    /\ receiving = 0
    /\ retryTimer = TRUE
    /\ retryDue = RetryInterval
    /\ now = 0
    /\ requestQueue = EmptyBag
    /\ stopState = "idle"
    /\ count = 0
    /\ tasks = 0
    /\ atStop = [created |-> 0, pending |-> {}]

(* -------------------------- enqueueCallRequest -------------------------- *)

\* The ledger after enqueueCallRequest: Map.set replaces an entry already
\* stored under the id.
EnqueueLedger(pending, id, request) == MapSet(pending, id, request)

\* state.publishMessage(body): the backend takes the message, or the promise
\* it returns is rejected and the message is lost.
publishMessage(queue, body, accepted) ==
    IF accepted THEN queue (+) SetToBag({body}) ELSE queue

\* enqueueCallRequest: the promise publishMessage returns is dropped, so the
\* call returns deferred.promise whether or not the backend took the message.
EnqueueCall(id, rq, accepted) ==
    /\ LET d == Len(promises) + 1
           deferred == PendingRequest(d, JSONstringify(id, rq), now)
       IN /\ promises' = Append(promises, NewDeferred(id))
          /\ callResultsPending' = EnqueueLedger(callResultsPending, id, deferred)
          /\ requestQueue' = publishMessage(requestQueue, deferred.callArgsStr, accepted)
    /\ UNCHANGED <<collectorPump, receiving, retryTimer, retryDue, now,
                   stopState, count, tasks, atStop>>

\* enqueueCallRequest with a backend that takes the message.
enqueueCallRequest(id, rq) == EnqueueCall(id, rq, TRUE)

(* --------------------------- adjustConcurrencyLevel --------------------- *)

Min(a, b) == IF a < b THEN a ELSE b

\* Pump.setMaxConcurrency(n).
setMaxConcurrency(pump, n) == [pump EXCEPT !.maxConcurrency = n]

\* adjustConcurrencyLevel that scales with the backlog whether or not the
\* batch was full.
adjustConcurrencyLevelAlwaysFull(pump, pending, full) ==
    LET nPending == Size(pending)
        nCollectors == (nPending \div CollectorsPerPending) + MinCollectors
    IN IF nPending > 0
       THEN setMaxConcurrency(pump, Min(nCollectors, MaxCollectors))
       ELSE pump

\* adjustConcurrencyLevel without the cap of Math.min.
adjustConcurrencyLevelNoCap(pump, pending, full) ==
    LET nPending == Size(pending)
        nCollectors ==
            IF full THEN (nPending \div CollectorsPerPending) + MinCollectors
            ELSE MinCollectors
    IN IF nPending > 0 THEN setMaxConcurrency(pump, nCollectors) ELSE pump

adjustConcurrencyLevel(pump, pending, full) ==
    LET nPending == Size(pending)
        nCollectors ==
            IF full THEN (nPending \div CollectorsPerPending) + MinCollectors
            ELSE MinCollectors
    IN IF nPending > 0
       THEN setMaxConcurrency(pump, Min(nCollectors, MaxCollectors))
       ELSE pump

(* ------------------------------- Pump (funnel) -------------------------- *)

\* The pump learns that a collector instance has returned. It does so in a
\* continuation of the instance's promise, which runs before any timer or
\* backend callback: no other step of the engine comes in between.
PumpFinish(pump) == [pump EXCEPT !.concurrency = @ - 1]

\* resultCollector up to its first suspension point: it polls the backend
\* only if the ledger holds an entry.
CollectorPollsAlways(pending) == TRUE

CollectorPolls(pending) == Size(pending) > 0

\* The pump starts one more resultCollector, which runs up to its first
\* suspension point: receiveMessages when the ledger holds an entry. With an
\* empty ledger the instance returns at once and the pump counts it out again.
PumpStart ==
    /\ ~collectorPump.stopped
    /\ collectorPump.concurrency < collectorPump.maxConcurrency
    /\ LET started == [collectorPump EXCEPT !.concurrency = @ + 1]
       IN IF CollectorPolls(callResultsPending)
          THEN /\ collectorPump' = started
               /\ receiving' = receiving + 1
          ELSE /\ collectorPump' = PumpFinish(started)
               /\ receiving' = receiving
    /\ UNCHANGED <<callResultsPending, promises, retryTimer, retryDue, now,
                   requestQueue, stopState, count, tasks, atStop>>

(* ------------------------------ resultCollector ------------------------- *)

\* TakeResult without the delete: the entry stays in the ledger.
TakeResultKeep(st, m, CallId) ==
    [st EXCEPT
        !.callResults =
            Append(@, [CallId |-> CallId, message |-> m,
                       deferred |-> IF MapHas(st.pending, CallId)
                                    THEN st.pending[CallId].deferred
                                    ELSE NoDeferred])]

\* What the scan does with a result message: stage it with the entry found
\* under its id (or none) and delete the id from the ledger.
TakeResult(st, m, CallId) ==
    [st EXCEPT
        !.callResults =
            Append(@, [CallId |-> CallId, message |-> m,
                       deferred |-> IF MapHas(st.pending, CallId)
                                    THEN st.pending[CallId].deferred
                                    ELSE NoDeferred]),
        !.pending = MapDelete(@, CallId)]

\* MarkExecuting that falls through to the result branch's delete.
MarkExecutingAndDelete(st, CallId) ==
    IF CallId # NoCallId /\ MapHas(st.pending, CallId)
    THEN [st EXCEPT !.pending = MapDelete(@, CallId)]
    ELSE st

\* What the scan does with a functionstarted message.
MarkExecuting(st, CallId) ==
    IF CallId # NoCallId /\ MapHas(st.pending, CallId)
    THEN [st EXCEPT !.pending = [@ EXCEPT ![CallId].executing = TRUE]]
    ELSE st

\* One iteration of `for (const m of Messages)`.
ScanMessage(st, m) ==
    IF isControlMessage(m, "stopqueue")
    THEN [st EXCEPT !.stopqueue = TRUE]
    ELSE LET CallId == getMessageAttribute(m)
         IN IF isControlMessage(m, "functionstarted")
            THEN MarkExecuting(st, CallId)
            ELSE IF CallId # NoCallId THEN TakeResult(st, m, CallId) ELSE st

\* The scan loop from message i on; it returns at the first stopqueue.
RECURSIVE Scan(_, _, _)
Scan(st, batch, i) ==
    IF i > Len(batch) \/ st.stopqueue
    THEN st
    ELSE Scan(ScanMessage(st, batch[i]), batch, i + 1)

\* One iteration of the loop of resolvePromises.
ResolveOne(ps, r) ==
    IF r.deferred # NoDeferred
    THEN Resolve(ps, r.deferred, JSONparse(getMessageBody(r.message)).value, r.message)
    ELSE ps

\* resolvePromises(results) from result i on: JSON.parse throws on a body it
\* cannot parse, which ends the loop (the caller catches and logs).
RECURSIVE resolvePromises(_, _, _)
resolvePromises(ps, results, i) ==
    IF i > Len(results)
    THEN ps
    ELSE IF results[i].CallId = NoCallId
         THEN resolvePromises(ps, results, i + 1)
         ELSE IF JSONparse(getMessageBody(results[i].message)).threw
              THEN ps
              ELSE resolvePromises(ResolveOne(ps, results[i]), results, i + 1)

\* The body of resultCollector after receiveMessages has returned: the state
\* of the scan, then the promises after resolvePromises.
ScanBatch(pending, batch) ==
    Scan([pending |-> pending, callResults |-> << >>, stopqueue |-> FALSE], batch, 1)

CollectPromisesDespiteStop(ps, scanned) ==
    resolvePromises(ps, scanned.callResults, 1)

CollectPromises(ps, scanned) ==
    IF scanned.stopqueue THEN ps ELSE resolvePromises(ps, scanned.callResults, 1)

\* resultCollector resumes from `await state.receiveMessages()`.
CollectorReceive(batch, full) ==
    /\ receiving > 0
    /\ LET scanned == ScanBatch(callResultsPending, batch)
           adjusted == adjustConcurrencyLevel(collectorPump, callResultsPending, full)
       IN /\ collectorPump' = PumpFinish(adjusted)
          /\ callResultsPending' = scanned.pending
          /\ promises' = CollectPromises(promises, scanned)
    /\ receiving' = receiving - 1
    /\ UNCHANGED <<retryTimer, retryDue, now, requestQueue, stopState, count, tasks, atStop>>

(* ------------------------------- retryQueue ----------------------------- *)

\* The entries retryQueue publishes again at time t.
RetryDueBelowNine(pending, t) ==
    IF Size(pending) > 0 /\ Size(pending) < RetryLimit - 1
    THEN {id \in DOMAIN pending :
            ~pending[id].executing /\ t - pending[id].created > RetryAge}
    ELSE {}

RetryDueStarted(pending, t) ==
    IF Size(pending) > 0 /\ Size(pending) < RetryLimit
    THEN {id \in DOMAIN pending : t - pending[id].created > RetryAge}
    ELSE {}

RetryDue(pending, t) ==
    IF Size(pending) > 0 /\ Size(pending) < RetryLimit
    THEN {id \in DOMAIN pending :
            ~pending[id].executing /\ t - pending[id].created > RetryAge}
    ELSE {}

RECURSIVE PublishAll(_, _, _)
PublishAll(queue, pending, ids) ==
    IF ids = {}
    THEN queue
    ELSE LET id == CHOOSE x \in ids : TRUE
         IN PublishAll(publishMessage(queue, pending[id].callArgsStr, TRUE),
                       pending, ids \ {id})

\* retryQueue(state): the requestQueue after the tick.
retryQueue(queue, pending, t) == PublishAll(queue, pending, RetryDue(pending, t))

\* The interval timer fires.
retryTick ==
    /\ retryTimer
    /\ now >= retryDue
    /\ retryDue' = retryDue + RetryInterval
    /\ requestQueue' = retryQueue(requestQueue, callResultsPending, now)
    /\ UNCHANGED <<callResultsPending, promises, collectorPump, receiving,
                   retryTimer, now, stopState, count, tasks, atStop>>

\* One second passes. The interval timer is punctual: time does not pass a
\* tick that is due.
Advance ==
    /\ now < MaxNow
    /\ retryTimer => now < retryDue
    /\ now' = now + 1
    /\ UNCHANGED <<callResultsPending, promises, collectorPump, receiving,
                   retryTimer, retryDue, requestQueue, stopState, count, tasks,
                   atStop>>

(* ------------------------------- rejectAll ------------------------------ *)

\* callResultsPending[key]: a property read on the Map object, not a Map
\* lookup; no entry is stored as a property, so the read yields undefined.
MapProperty(map, key) == NoDeferred

\* rejectAll: the argument of the first promise.reject reads .callArgsStr of
\* callResultsPending[key], which throws a TypeError before any promise is
\* rejected and before clear(). With an empty map the loop body never runs.
rejectAll(pending, ps) ==
    IF DOMAIN pending = {}
    THEN [threw |-> FALSE, pending |-> EmptyMap, promises |-> ps]
    ELSE IF \E key \in DOMAIN pending : MapProperty(pending, key) = NoDeferred
         THEN [threw |-> TRUE, pending |-> pending, promises |-> ps]
         ELSE [threw |-> FALSE, pending |-> EmptyMap,
               promises |-> [d \in DOMAIN ps |->
                   IF \E key \in DOMAIN pending : pending[key].deferred = d
                   THEN Reject(ps, d)[d] ELSE ps[d]]]

(* ---------------------------------- stop -------------------------------- *)

\* DrainStep without the limit on count.
DrainStepUnbounded(pump, c, t) ==
    IF pump.concurrency > 0
    THEN [state |-> "sleeping", count |-> c + 1, tasks |-> t + 1]
    ELSE [state |-> "done", count |-> c, tasks |-> t]

\* The test of stop()'s while loop, with the side effect of count++.
DrainStep(pump, c, t) ==
    IF pump.concurrency > 0
    THEN IF c < DrainLimit
         THEN [state |-> "sleeping", count |-> c + 1, tasks |-> t + 1]
         ELSE [state |-> "done", count |-> c + 1, tasks |-> t]
    ELSE [state |-> "done", count |-> c, tasks |-> t]

\* stop() up to its first suspension point.
stop ==
    /\ stopState = "idle"
    /\ collectorPump' = [collectorPump EXCEPT !.stopped = TRUE]
    /\ retryTimer' = FALSE
    /\ LET rejected == rejectAll(callResultsPending, promises)
           drain == DrainStep(collectorPump, 0, 0)
       IN /\ callResultsPending' = rejected.pending
          /\ promises' = rejected.promises
          /\ IF rejected.threw
             THEN stopState' = "threw" /\ UNCHANGED <<count, tasks>>
             ELSE stopState' = drain.state /\ count' = drain.count /\ tasks' = drain.tasks
    /\ atStop' = [created |-> Len(promises),
                   pending |-> {callResultsPending[id].deferred : id \in DOMAIN callResultsPending}]
    /\ UNCHANGED <<receiving, retryDue, now, requestQueue>>

\* stop() resumes from `await sleep(100)`.
stopWake ==
    /\ stopState = "sleeping"
    /\ LET drain == DrainStep(collectorPump, count, tasks)
       IN stopState' = drain.state /\ count' = drain.count /\ tasks' = drain.tasks
    /\ UNCHANGED <<callResultsPending, promises, collectorPump, receiving,
                   retryTimer, retryDue, now, requestQueue, atStop>>

(* ----------------------------- specifications --------------------------- *)

\* Spec: callers enqueue at most MaxCalls calls under the ids of CallIds, the
\* backend answers every receiveMessages with any batch of Batches, and
\* stop() is called at most once, at any moment.
Enqueue ==
    /\ Len(promises) < MaxCalls
    /\ \E id \in CallIds, rq \in ResponseQueueIds : enqueueCallRequest(id, rq)

Collect == \E batch \in Batches, full \in BOOLEAN : CollectorReceive(batch, full)

Next ==
    \/ Enqueue
    \/ PumpStart
    \/ Collect
    \/ stop
    \/ stopWake

Spec == Init /\ [][Next]_vars

\* SpecCollect: Spec without the wake-ups of stop()'s drain loop. stopWake
\* writes only stopState, count and tasks, and no other action reads them
\* once stop has run, so SpecCollect reaches the same ledgers, promises and
\* pump states as Spec.
NextCollect ==
    \/ Enqueue
    \/ PumpStart
    \/ Collect
    \/ stop

SpecCollect == Init /\ [][NextCollect]_vars

\* SpecLoad: a growing backlog. Callers enqueue up to MaxLoad calls under
\* the ids 1, 2, 3, ...; the backend returns batches of at most MaxLoadBatch
\* messages that carry no CallId or the result of call 1, and says of each
\* batch whether it was full.
LoadMessages == {ResultMessage(NoCallId, BodyTrue), ResultMessage(1, BodyTrue)}

EnqueueLoad ==
    /\ Len(promises) < MaxLoad
    /\ \E rq \in ResponseQueueIds : enqueueCallRequest(Len(promises) + 1, rq)

LoadBatches == BatchesOf(LoadMessages, MaxLoadBatch)

CollectLoad == \E batch \in LoadBatches, full \in BOOLEAN : CollectorReceive(batch, full)

NextLoad ==
    \/ EnqueueLoad
    \/ PumpStart
    \/ CollectLoad

SpecLoad == Init /\ [][NextLoad]_vars

\* SpecRetry: the retry ticker on a clock of seconds. Callers enqueue up to
\* MaxRetryCalls calls under the ids 1, 2, 3, ... until second
\* RetryInterval - RetryAge, so that the first tick meets calls that are 4
\* and 5 seconds old; the backend returns the empty batch or one
\* message: functionstarted for call 1, for call 2 or without CallId, or
\* the result of call 1; stop() is called at most once, at any moment.
RetryMessages ==
    {ControlMessage("functionstarted", id) : id \in {1, 2, NoCallId}}
        \cup {ResultMessage(1, BodyTrue)}

EnqueueRetry ==
    /\ Len(promises) < MaxRetryCalls
    /\ now <= RetryInterval - RetryAge
    /\ \E rq \in ResponseQueueIds : enqueueCallRequest(Len(promises) + 1, rq)

RetryBatches == {<< >>} \cup {<<m>> : m \in RetryMessages}

CollectRetry == \E batch \in RetryBatches, full \in BOOLEAN : CollectorReceive(batch, full)

NextRetry ==
    \/ EnqueueRetry
    \/ PumpStart
    \/ CollectRetry
    \/ Advance
    \/ retryTick
    \/ stop

SpecRetry == Init /\ [][NextRetry]_vars

\* SpecRetryFair: SpecRetry in which the clock keeps running up to MaxNow and
\* the interval timer fires whenever it is due.
SpecRetryFair == SpecRetry /\ WF_vars(Advance) /\ WF_vars(retryTick)

\* SpecPublish: SpecRetry with a backend that may refuse a publish. Callers
\* enqueue at most MaxCalls calls under the ids of CallIds, at any second.
EnqueuePublish ==
    /\ Len(promises) < MaxCalls
    /\ \E id \in CallIds, rq \in ResponseQueueIds, accepted \in BOOLEAN :
         EnqueueCall(id, rq, accepted)

NextPublish ==
    \/ EnqueuePublish
    \/ PumpStart
    \/ CollectRetry
    \/ Advance
    \/ retryTick
    \/ stop

SpecPublish == Init /\ [][NextPublish]_vars

\* SpecDrain: stop() with its drain loop. Callers enqueue as under Spec, the
\* backend returns the batches of SpecRetry, and every sleep of the drain
\* loop ends; a collector in receiveMessages may stay there forever.
NextDrain ==
    \/ Enqueue
    \/ PumpStart
    \/ CollectRetry
    \/ stop
    \/ stopWake

SpecDrain == Init /\ [][NextDrain]_vars /\ WF_vars(stopWake)

(* -------------------------------- claims -------------------------------- *)

Deferreds == DOMAIN promises
\* The promise returned by stop() has settled: fulfilled, or rejected with
\* the error thrown inside stop().
StopSettled == stopState \in {"done", "threw"}

\* C1: no future returned by enqueueCallRequest is fulfilled more than once:
\* the number of resolve and reject calls on it never exceeds 1.
C1_FulfilledAtMostOnce == \A d \in Deferreds : promises[d].settles <= 1

\* C1 witness: a future has been resolved, its id was enqueued again and
\* stop() has run.
C1_Witness ==
    /\ collectorPump.stopped
    /\ \E d \in Deferreds :
        /\ promises[d].state = "resolved"
        /\ promises[d].settles = 1
        /\ MapHas(callResultsPending, promises[d].CallId)

\* C2: once stop() has returned, every future that enqueueCallRequest
\* returned before stop() was called has been fulfilled.
C2_AllFulfilledWhenStopped ==
    stopState = "done" => \A d \in 1 .. atStop.created : promises[d].state # "pending"

\* C3: once stop() has completed, every future that was in the ledger when
\* stop() was called has been rejected.
C3_PendingRejectedByStop ==
    StopSettled => \A d \in atStop.pending : promises[d].state = "rejected"

\* C4: at the moment stop() completes, the ledger is empty.
C4_LedgerEmptyAfterStop ==
    [][(~StopSettled /\ StopSettled') => Size(callResultsPending') = 0]_vars

\* The ledger and the promises after a collector tick that receives batch.
TickOutcome(pending, ps, batch) ==
    LET scanned == ScanBatch(pending, batch)
    IN [pending |-> scanned.pending, promises |-> CollectPromises(ps, scanned)]

\* m is a result message of call id whose body deserializes.
IsResultOf(m, id) ==
    /\ m.kind = "result"
    /\ m.CallId = id
    /\ ~JSONparse(m.body).threw

HasResultOf(batch, id) == \E i \in 1 .. Len(batch) : IsResultOf(batch[i], id)

\* C5: two result messages with the id of a pending call, delivered to two
\* collector instances in flight (in the same batch or in two batches),
\* resolve the call's future exactly once.
C5_TwoDeliveriesResolveOnce ==
    receiving >= 2 =>
        \A id \in DOMAIN callResultsPending :
            \A b1, b2 \in Batches :
                (HasResultOf(b1, id) /\ HasResultOf(b2, id)) =>
                    LET d == callResultsPending[id].deferred
                        first == TickOutcome(callResultsPending, promises, b1)
                        second == TickOutcome(first.pending, first.promises, b2)
                    IN /\ second.promises[d].state = "resolved"
                       /\ second.promises[d].settles = 1

\* The first result message of call id in batch is at position i.
FirstResultOf(batch, i, id) ==
    /\ IsResultOf(batch[i], id)
    /\ \A j \in 1 .. (i - 1) : ~(batch[j].kind = "result" /\ batch[j].CallId = id)

\* C6: a future is resolved only with the payload of a result message that
\* carries its call's id, and a result message with the id of a pending call
\* resolves that call's future with the message's payload.
C6_ResolvedWithOwnResult ==
    /\ \A d \in Deferreds :
        promises[d].state = "resolved" =>
            /\ promises[d].rawResponse.CallId = promises[d].CallId
            /\ promises[d].value = JSONparse(promises[d].rawResponse.body).value
    /\ receiving >= 1 =>
        \A id \in DOMAIN callResultsPending :
            \A batch \in Batches :
                \A i \in 1 .. Len(batch) :
                    FirstResultOf(batch, i, id) =>
                        LET d == callResultsPending[id].deferred
                            after == TickOutcome(callResultsPending, promises, batch)
                        IN /\ after.promises[d].state = "resolved"
                           /\ after.promises[d].value = JSONparse(batch[i].body).value

\* C7: enqueueCallRequest under an id that is already in the ledger fails: it
\* leaves the ledger entry of the id as it was and creates no second future.
C7_DuplicateEnqueueRefused ==
    [][\A id \in CallIds, rq \in ResponseQueueIds :
          (MapHas(callResultsPending, id) /\ enqueueCallRequest(id, rq)) =>
              /\ callResultsPending' = callResultsPending
              /\ promises' = promises]_vars

\* C8: no operation takes an id out of the ledger and leaves the future of
\* its entry unfulfilled.
C8_RemovedMeansFulfilled ==
    [][\A id \in DOMAIN callResultsPending :
          ~MapHas(callResultsPending', id) =>
              promises'[callResultsPending[id].deferred].state # "pending"]_vars

\* C9: a collector tick that finds n > 0 pending calls when receiveMessages
\* returns sets maxConcurrency to min(10, floor(n/20) + 2) if the batch was
\* full and to 2 if it was not; maxConcurrency is always within 2..10.
C9_MaxConcurrencyFormula ==
    /\ [](collectorPump.maxConcurrency \in 2 .. 10)
    /\ [][\A batch \in LoadBatches, full \in BOOLEAN :
             CollectorReceive(batch, full) =>
                 LET n == Size(callResultsPending)
                 IN n > 0 =>
                     collectorPump'.maxConcurrency =
                         IF full THEN Min(10, (n \div 20) + 2) ELSE 2]_vars

\* C9 witness: 25 calls are pending and a tick with a full batch has raised
\* maxConcurrency to 3.
C9_Witness ==
    /\ Size(callResultsPending) = 25
    /\ collectorPump.maxConcurrency = 3

\* C10: 0 <= currentConcurrency <= maxConcurrency in every reachable state.
C10_ConcurrencyWithinMax ==
    /\ 0 <= collectorPump.concurrency
    /\ collectorPump.concurrency <= collectorPump.maxConcurrency

\* C10 as amended: 0 <= currentConcurrency <= 10 in every reachable state,
\* and currentConcurrency grows only up to maxConcurrency; a tick that lowers
\* maxConcurrency leaves the collector instances in flight above it.
C10_ConcurrencyWithinCap ==
    /\ [](collectorPump.concurrency \in 0 .. 10)
    /\ [][collectorPump'.concurrency > collectorPump.concurrency =>
             collectorPump'.concurrency <= collectorPump'.maxConcurrency]_vars

\* C10 witness: a tick has lowered maxConcurrency to 2 while three collector
\* instances were in flight.
C10_Witness ==
    /\ collectorPump.maxConcurrency = 2
    /\ collectorPump.concurrency = 3
    /\ receiving > 0

\* The copies of a serialized call the backend has been handed.
Published(queue, callArgsStr) == CopiesIn(callArgsStr, queue)

\* C11: on a retry tick a pending request is published once more, its
\* serialized call unchanged, exactly when the ledger holds more than 0 and
\* fewer than 10 entries, the request is not executing and it was created more
\* than 4 seconds ago; nothing else is published by the tick, in particular
\* nothing when 10 or more are pending; and no step publishes a request again
\* whose executing flag is set.
C11_RetryOnlyStaleUnstarted ==
    [][/\ retryDue' # retryDue =>
            /\ callResultsPending' = callResultsPending
            /\ \A id \in DOMAIN callResultsPending :
                 LET pending == callResultsPending[id]
                     stale == /\ Size(callResultsPending) > 0
                              /\ Size(callResultsPending) < 10
                              /\ pending.executing = FALSE
                              /\ now - pending.created > 4
                 IN Published(requestQueue', pending.callArgsStr)
                      = Published(requestQueue, pending.callArgsStr)
                          + (IF stale THEN 1 ELSE 0)
            /\ \A str \in BagToSet(requestQueue') :
                 (\A id \in DOMAIN callResultsPending :
                      callResultsPending[id].callArgsStr # str)
                    => Published(requestQueue', str) = Published(requestQueue, str)
            /\ Size(callResultsPending) >= 10 => requestQueue' = requestQueue
       /\ \A id \in DOMAIN callResultsPending :
            callResultsPending[id].executing
               => Published(requestQueue', callResultsPending[id].callArgsStr)
                    = Published(requestQueue, callResultsPending[id].callArgsStr)
      ]_vars

\* A tick has published call 1 again and has passed over call 2, which is
\* just as old and executing.
C11_Witness ==
    /\ retryDue > RetryInterval
    /\ {1, 2} \subseteq DOMAIN callResultsPending
    /\ Published(requestQueue, callResultsPending[1].callArgsStr) = 2
    /\ callResultsPending[2].executing
    /\ now - callResultsPending[2].created > RetryAge
    /\ Published(requestQueue, callResultsPending[2].callArgsStr) = 1

\* The ids SpecRetry enqueues.
RetryCallIds == 1 .. MaxRetryCalls

\* The first tick of the ticker lies ahead, stop() was not invoked, and call
\* id is pending, has not started and will be older than 4 seconds at that
\* tick.
WaitsUnstarted(id) ==
    /\ stopState = "idle"
    /\ retryDue = RetryInterval
    /\ now < retryDue
    /\ MapHas(callResultsPending, id)
    /\ retryDue - callResultsPending[id].created > RetryAge
    /\ ~callResultsPending[id].executing

\* Call id has been published again, or has left the case: it is no longer
\* pending, it has started, or stop() was invoked.
RetriedOrGone(id) ==
    \/ stopState # "idle"
    \/ ~MapHas(callResultsPending, id)
    \/ callResultsPending[id].executing
    \/ Published(requestQueue, callResultsPending[id].callArgsStr) >= 2

C13_PublishFailurePropagated ==
    [][\A id \in CallIds, rq \in ResponseQueueIds :
         EnqueueCall(id, rq, FALSE) =>
            /\ MapHas(callResultsPending', id)
            /\ \/ promises' = promises
               \/ promises'[Len(promises')].state = "rejected"
      ]_vars

IsStopqueue(m) == isControlMessage(m, "stopqueue")

\* The first stopqueue message of batch is at position i.
FirstStopqueue(batch, i) ==
    /\ IsStopqueue(batch[i])
    /\ \A j \in 1 .. (i - 1) : ~IsStopqueue(batch[j])

NoStopqueue(batch) == \A i \in 1 .. Len(batch) : ~IsStopqueue(batch[i])

\* C14 as stated: a collector tick whose batch holds no stopqueue message
\* resolves, before it ends, the future of every request it took out of the
\* ledger, whatever ids and bodies the batch carries.
C14_TakenMeansResolved ==
    receiving >= 1 =>
        \A batch \in Batches :
            NoStopqueue(batch) =>
                LET out == TickOutcome(callResultsPending, promises, batch)
                IN \A id \in DOMAIN callResultsPending :
                       ~MapHas(out.pending, id) =>
                           out.promises[callResultsPending[id].deferred].state = "resolved"

\* C15: a collector tick that meets a stopqueue message ends there: the
\* ledger is what the messages before the stopqueue make of it (results take
\* their entry out, functionstarted marks its entry), the messages after it
\* change nothing, and the tick fulfils no future.
C15_StopqueueEndsTick ==
    receiving >= 1 =>
        \A batch \in Batches :
            \A i \in 1 .. Len(batch) :
                FirstStopqueue(batch, i) =>
                    LET out == TickOutcome(callResultsPending, promises, batch)
                        taken == {batch[j].CallId : j \in {k \in 1 .. (i - 1) :
                                                            batch[k].kind = "result"}}
                        started == {batch[j].CallId : j \in {k \in 1 .. (i - 1) :
                                                            isControlMessage(batch[k], "functionstarted")}}
                    IN /\ out.promises = promises
                       /\ DOMAIN out.pending = DOMAIN callResultsPending \ taken
                       /\ \A id \in DOMAIN out.pending :
                            out.pending[id] =
                                [callResultsPending[id] EXCEPT
                                    !.executing = @ \/ id \in started]

\* A tick has taken the only call out of the ledger and has ended without
\* fulfilling its future, as a tick does that meets stopqueue after the
\* call's result; stop() was not invoked.
C15_Witness ==
    /\ stopState = "idle"
    /\ Len(promises) = 1
    /\ promises[1].state = "pending"
    /\ Size(callResultsPending) = 0
    /\ receiving = 0

\* C16 as stated: a result staged by a tick that ends early on stopqueue is
\* not lost: when the backend delivers the result of that call again to a
\* later tick, while the engine is not stopped, that tick resolves the future.
C16_StagedResultRedelivered ==
    (receiving >= 2 /\ stopState = "idle") =>
        \A id \in DOMAIN callResultsPending :
            \A b1, b2 \in Batches :
                (/\ \E i, j \in 1 .. Len(b1) :
                        i < j /\ FirstResultOf(b1, i, id) /\ FirstStopqueue(b1, j)
                 /\ \E k \in 1 .. Len(b2) : FirstResultOf(b2, k, id)
                 /\ NoStopqueue(b2)
                 /\ \A k \in 1 .. Len(b2) :
                        b2[k].kind = "result" => ~JSONparse(getMessageBody(b2[k])).threw)
                    => LET d == callResultsPending[id].deferred
                           first == TickOutcome(callResultsPending, promises, b1)
                           second == TickOutcome(first.pending, first.promises, b2)
                       IN second.promises[d].state = "resolved"

\* The functionstarted message for call id (NoCallId: without id).
FunctionStarted(id) == ControlMessage("functionstarted", id)

\* C17: a tick that receives a functionstarted message for id X sets the
\* executing flag of X's ledger entry and nothing else: the entry stays, no
\* future is fulfilled, no other entry changes, and nothing changes when X is
\* not pending or the message has no id. Only such a tick sets an executing
\* flag, and no step clears the flag of a request.
C17_FunctionStartedOnlyMarks ==
    /\ [](\A X \in RetryCallIds \cup {NoCallId} :
            LET out == TickOutcome(callResultsPending, promises, <<FunctionStarted(X)>>)
            IN /\ out.promises = promises
               /\ DOMAIN out.pending = DOMAIN callResultsPending
               /\ \A id \in DOMAIN callResultsPending :
                    out.pending[id] =
                        IF id = X
                        THEN [callResultsPending[id] EXCEPT !.executing = TRUE]
                        ELSE callResultsPending[id])
    /\ [][\A id \in DOMAIN callResultsPending \cap DOMAIN callResultsPending' :
            callResultsPending'[id].deferred = callResultsPending[id].deferred =>
               /\ callResultsPending[id].executing => callResultsPending'[id].executing
               /\ (~callResultsPending[id].executing /\ callResultsPending'[id].executing)
                     => \E full \in BOOLEAN : CollectorReceive(<<FunctionStarted(id)>>, full)
         ]_vars

\* Call 1 has been marked executing by a tick: its entry is in the ledger,
\* its future is pending, and call 2 is pending and not marked.
C17_Witness ==
    /\ {1, 2} \subseteq DOMAIN callResultsPending
    /\ callResultsPending[1].executing
    /\ promises[callResultsPending[1].deferred].state = "pending"
    /\ ~callResultsPending[2].executing

\* What C18 says of every step once stop() has been invoked: the ticker does
\* not fire, only a new enqueueCallRequest publishes, and the pool starts no
\* instance, so currentConcurrency does not grow.
HaltedStep ==
    /\ retryDue' = retryDue
    /\ requestQueue' # requestQueue => Len(promises') > Len(promises)
    /\ collectorPump'.concurrency <= collectorPump.concurrency
    /\ receiving' <= receiving

\* C18 as stated: stop() stops the pool, cancels the retry timer and rejects
\* and clears the ledger before its first suspension point, and from then on
\* the ticker publishes nothing again, the pool admits no instance and
\* currentConcurrency does not grow.
C18_StopHaltsTickerAndPool ==
    [][/\ (stopState = "idle" /\ stopState' # "idle") =>
            /\ collectorPump'.stopped
            /\ ~retryTimer'
            /\ Size(callResultsPending') = 0
            /\ \A id \in DOMAIN callResultsPending :
                 promises'[callResultsPending[id].deferred].state = "rejected"
       /\ stopState # "idle" => HaltedStep
      ]_vars

\* C19: the drain loop of stop() publishes one stopqueue message per
\* iteration and sleeps; it ends at the first test that finds
\* currentConcurrency at 0 or count at 100, so that stop() publishes at most
\* 100 stopqueue messages and ends even when a collector never returns.
C19_DrainLoopBounded ==
    /\ [](/\ tasks <= 100
          /\ count <= 101
          /\ stopState = "sleeping" => (tasks = count /\ count <= 100))
    /\ [][(stopState = "sleeping" /\ <<stopState, count, tasks>>' # <<stopState, count, tasks>>) =>
            IF collectorPump.concurrency = 0
            THEN stopState' = "done" /\ tasks' = tasks
            ELSE IF count < 100
                 THEN stopState' = "sleeping" /\ tasks' = tasks + 1
                 ELSE stopState' = "done" /\ tasks' = tasks
         ]_vars
    /\ (stopState = "sleeping") ~> (stopState = "done")

\* stop() has ended after 100 stopqueue messages while a collector is still
\* in receiveMessages.
C19_Witness ==
    /\ stopState = "done"
    /\ tasks = DrainLimit
    /\ receiving > 0

\* C20: a collector instance that starts while the ledger is empty does
\* nothing: it does not enter receiveMessages, and maxConcurrency, the ledger
\* and the futures stay as they are (adjustConcurrencyLevel changes nothing
\* either while nothing is pending).
C20_EmptyLedgerTickIdle ==
    /\ [][(PumpStart /\ Size(callResultsPending) = 0) =>
            /\ receiving' = receiving
            /\ collectorPump'.maxConcurrency = collectorPump.maxConcurrency
            /\ callResultsPending' = callResultsPending
            /\ promises' = promises
         ]_vars
    /\ [](Size(callResultsPending) = 0 =>
            \A full \in BOOLEAN :
                adjustConcurrencyLevel(collectorPump, callResultsPending, full)
                    = collectorPump)

\* The ledger is empty again after a call was enqueued and answered, and the
\* pump is free to start a collector instance.
C20_Witness ==
    /\ Size(callResultsPending) = 0
    /\ Len(promises) > 0
    /\ ~collectorPump.stopped
    /\ collectorPump.concurrency < collectorPump.maxConcurrency
    /\ receiving = 0

====
